---- MODULE Spec2Model ----
(***************************************************************************)
(* Distributed API request router of the Wazuh cluster                     *)
(* (framework/wazuh/cluster/dapi/dapi.py): DistributedAPI, APIRequestQueue *)
(* and the merge of the partial results of a fan-out.                      *)
(*                                                                         *)
(* JSON values are tagged records [t, v]: t is the Python type the merge   *)
(* dispatches on (dict, list, int, str), v the value.  A dict is a         *)
(* function from its keys to JSON values.                                  *)
(***************************************************************************)
EXTENDS Integers, Sequences, FiniteSets, TLC

\* state of a merge of partial results (DistributedAPI.merge_results)
VARIABLES m_responses, m_kwargs, merged

mergeVars == <<m_responses, m_kwargs, merged>>

\* state of a solver resolution (DistributedAPI.get_solver_node)
VARIABLES s_db, s_kwargs, s_solved

solverVars == <<s_db, s_kwargs, s_solved>>

\* state of one DistributedAPI request:
\*   cfg           the constructor arguments, node_info and the cluster configuration
\*   from_cluster  self.from_cluster
\*   f_kwargs      self.f_kwargs
\*   pc            where distribute_function stands
\*   taken         the branches distribute_function entered
\*   nodes         the solver map of forward_request
\*   subs          the calls awaited: the local execution, the remote execution, or
\*                 the forward() sub-calls, one per entry of nodes
\*   chan          the messages handed to self.node.execute, in order
\*   pending       the first exception a gathered sub-call raised
\*   ret           what distribute_function returned or raised
\*   failures      the steps that failed before distribute_function ended
VARIABLES cfg, from_cluster, f_kwargs, pc, taken, nodes, subs, chan, pending, ret, failures

dapiVars == <<cfg, from_cluster, f_kwargs, pc, taken, nodes, subs, chan, pending, ret, failures>>

\* state of the inbound request queue (APIRequestQueue):
\*   request_queue  self.request_queue
\*   q_pc           where run() stands
\*   q_cur          the request run() is handling
\*   q_sent         the messages run() handed to the reply channel, in order
\*   q_added        every request add_request was called with, in order
\*   q_got          every request run() took from the queue, in order
\*   q_logged       the error tokens run() logged
VARIABLES request_queue, q_pc, q_cur, q_sent, q_added, q_got, q_logged

queueVars == <<request_queue, q_pc, q_cur, q_sent, q_added, q_got, q_logged>>

\* state of one call on its way between two nodes:
\*   w_call  the call the sender holds: its function and what to_dict returns
\*   w_wire  the JSON text on the channel
\*   w_got   what json.loads(..., object_hook=as_callable) made of it
VARIABLES w_call, w_wire, w_got

marshalVars == <<w_call, w_wire, w_got>>

vars == <<dapiVars, solverVars, mergeVars, queueVars, marshalVars>>

\* ------------------------------------------------------------------ bounds
MaxContrib == 2
MaxListLen == 2
MaxAgents == 3
MaxReq == 2
MaxRequests == 3

\* --------------------------------------------------------- JSON-like values
JInt(n) == [t |-> "int", v |-> n]
JStr(s) == [t |-> "str", v |-> s]
JList(l) == [t |-> "list", v |-> l]
JDict(d) == [t |-> "dict", v |-> d]
EmptyDict == <<>>

Range(s) == {s[i] : i \in DOMAIN s}
Min(a, b) == IF a < b THEN a ELSE b
NoDup(s) == \A i, j \in DOMAIN s : i # j => s[i] # s[j]

RECURSIVE SeqsUpTo(_, _)
SeqsUpTo(S, n) ==
    IF n = 0 THEN {<<>>}
    ELSE LET shorter == SeqsUpTo(S, n - 1)
         IN  shorter \cup {Append(s, x) : s \in {t \in shorter : Len(t) = n - 1}, x \in S}

\* optional values (a keyword argument, a key of a JSON object): absent or present
NoArg == [has |-> FALSE, v |-> 0]
NoStr == [has |-> FALSE, v |-> ""]
NoSeq == [has |-> FALSE, v |-> <<>>]
Arg(x) == [has |-> TRUE, v |-> x]

\* the agent_id argument: absent, one id, or a list of ids
NoAgent == [has |-> FALSE, t |-> "none", v |-> <<>>]
AgentId(a) == [has |-> TRUE, t |-> "int", v |-> <<a>>]
AgentList(l) == [has |-> TRUE, t |-> "list", v |-> l]

\* ------------------------------------------------------------ merge_results
database_limit == 500

priorities == {<<"Some agents were not restarted", "All selected agents were restarted">>}

\* a merge that appends the whole list
list_extend_all(old, field) == old \o field

\* final_json[key].extend([elem for elem in field if elem not in final_json[key]])
list_extend(old, field) == old \o SelectSeq(field, LAMBDA elem : elem \notin Range(old))

\* a merge in which the lower error code wins
int_merge_min(key, old, field) ==
    IF key = "totalItems" THEN old + field
    ELSE IF key = "error" /\ old > field THEN field
    ELSE old

int_merge(key, old, field) ==
    IF key = "totalItems" THEN old + field
    ELSE IF key = "error" /\ old < field THEN field
    ELSE old

\* a merge in which the last string written wins
str_merge_last(old, field) == field

str_merge(old, field) == IF <<field, old>> \in priorities THEN field ELSE old

RECURSIVE InsertSorted(_, _, _)
InsertSorted(x, s, order) ==
    IF s = <<>> THEN <<x>>
    ELSE IF (order = "asc" /\ x < Head(s)) \/ (order = "desc" /\ x > Head(s))
         THEN <<x>> \o s
         ELSE <<Head(s)>> \o InsertSorted(x, Tail(s), order)

RECURSIVE sort_array(_, _)
sort_array(items, order) ==
    IF items = <<>> THEN <<>>
    ELSE InsertSorted(items[Len(items)], sort_array(SubSeq(items, 1, Len(items) - 1), order), order)

\* a slice that takes one item too many
slice_inclusive(items, offset, limit) ==
    SubSeq(items, offset + 1, Min(offset + limit + 1, Len(items)))

\* items[offset:offset+limit] for offset, limit >= 0
Slice(items, offset, limit) == SubSeq(items, offset + 1, Min(offset + limit, Len(items)))

HasItems(final_json) ==
    /\ "data" \in DOMAIN final_json
    /\ final_json["data"].t = "dict"
    /\ "items" \in DOMAIN final_json["data"].v
    /\ final_json["data"].v["items"].t = "list"

\* f_kwargs after the defaults of lines 288-291 are written
page_kwargs(kw) ==
    [kw EXCEPT !.offset = IF kw.offset.has THEN kw.offset ELSE Arg(0),
               !.limit = IF kw.limit.has THEN kw.limit ELSE Arg(database_limit)]

paginate(final_json, kw) ==
    IF HasItems(final_json)
    THEN LET pk == page_kwargs(kw)
             items == final_json["data"].v["items"].v
             sorted == IF kw.sort.has THEN sort_array(items, kw.sort.v) ELSE items
             page == Slice(sorted, pk.offset.v, pk.limit.v)
         IN  [final_json EXCEPT !["data"] =
                 JDict([final_json["data"].v EXCEPT !["items"] = JList(page)])]
    ELSE final_json

RECURSIVE merge_results(_, _, _)

\* one iteration of the inner loop: the value of final_json[key] afterwards
merge_field(final_json, key, field, kw) ==
    LET present == key \in DOMAIN final_json IN
    CASE field.t = "dict" ->
            JDict(merge_results(<<field.v>>,
                                IF present THEN final_json[key].v ELSE EmptyDict, kw))
      [] field.t = "list" ->
            IF present THEN JList(list_extend(final_json[key].v, field.v)) ELSE field
      [] field.t = "int" ->
            IF present THEN JInt(int_merge(key, final_json[key].v, field.v)) ELSE field
      [] OTHER ->
            IF present THEN JStr(str_merge(final_json[key].v, field.v)) ELSE field

\* one iteration of the outer loop: every key of local_json merged into final_json
merge_local(final_json, local_json, kw) ==
    [key \in DOMAIN final_json \cup DOMAIN local_json |->
        IF key \in DOMAIN local_json
        THEN merge_field(final_json, key, local_json[key], kw)
        ELSE final_json[key]]

RECURSIVE merge_loop(_, _, _)
merge_loop(responses, final_json, kw) ==
    IF responses = <<>> THEN final_json
    ELSE merge_loop(Tail(responses), merge_local(final_json, Head(responses), kw), kw)

merge_results(responses, final_json, kw) ==
    paginate(merge_loop(responses, final_json, kw), kw)

\* ---------------------------------------------------------- get_solver_node
\* node_info of this process: DistributedAPI is built on the master "masterX"
OwnNode == "masterX"

Ids == 1..MaxAgents
NotRegistered == "none"
DirNames == {"masterX", "nodeA", "nodeB", "unknown"}

\* the agent directory: the node every registered agent reports to
Directories == [Ids -> DirNames \cup {NotRegistered}]

NodeRank(n) ==
    CASE n = "" -> 0 [] n = "masterX" -> 1 [] n = "nodeA" -> 2 [] n = "nodeB" -> 3
      [] OTHER -> 4

Perms(S) == {p \in [1..Cardinality(S) -> S] : \A i, j \in DOMAIN p : i # j => p[i] # p[j]}

\* Agent.get_agents_overview(select, filters, sort)['items']: the registered agents
\* that pass the id filter.  They come ordered by the sort field when it is a field
\* of the items; for any other field name the order is not determined.
get_agents_overview(db, filter, sort_field) ==
    LET match == {a \in Ids : db[a] # NotRegistered /\ (filter.has => a \in Range(filter.v))}
        ordered(p) == sort_field = "node_name" =>
                         \A i, j \in DOMAIN p : i < j => NodeRank(db[p[i]]) >= NodeRank(db[p[j]])
    IN  {[i \in DOMAIN p |-> [id |-> p[i], node_name |-> db[p[i]]]] :
            p \in {q \in Perms(match) : ordered(q)}}

\* itertools.groupby(agents, key=itemgetter('node_name')): the runs of equal keys
RECURSIVE groupby(_)
groupby(agents) ==
    IF agents = <<>> THEN <<>>
    ELSE LET rest == groupby(SubSeq(agents, 1, Len(agents) - 1))
             last == agents[Len(agents)]
         IN  IF rest # <<>> /\ rest[Len(rest)].node = last.node_name
             THEN [rest EXCEPT ![Len(rest)].ids = Append(@, last.id)]
             ELSE Append(rest, [node |-> last.node_name, ids |-> <<last.id>>])

\* a dict in insertion order: d[k] = v
DictPut(d, k, v) ==
    IF \E i \in DOMAIN d : d[i].node = k
    THEN [i \in DOMAIN d |-> IF d[i].node = k THEN [node |-> k, ids |-> v] ELSE d[i]]
    ELSE Append(d, [node |-> k, ids |-> v])

DictHas(d, k) == \E i \in DOMAIN d : d[i].node = k
DictGet(d, k) == d[CHOOSE i \in DOMAIN d : d[i].node = k].ids

\* {k: v for k, v in runs}: a later run of the same key replaces the earlier one
RECURSIVE dict_of(_)
dict_of(runs) ==
    IF runs = <<>> THEN <<>>
    ELSE LET last == runs[Len(runs)]
         IN  DictPut(dict_of(SubSeq(runs, 1, Len(runs) - 1)), last.node, last.ids)

RECURSIVE SetToSeq(_)
SetToSeq(S) ==
    IF S = {} THEN <<>>
    ELSE LET m == CHOOSE x \in S : \A y \in S : x <= y
         IN  <<m>> \o SetToSeq(S \ {m})

Solved(map, kw) == [raised |-> FALSE, nodes |-> map, kw |-> kw]
LookupFailed(kw) == [raised |-> TRUE, nodes |-> <<>>, kw |-> kw]

\* agents: what get_agents_overview returned for this call; db: the directory that
\* get_agent reads.  The result is the solver map (node name -> ids, in insertion
\* order) and the keyword arguments as the call leaves them.
get_solver_node(kw, own, agents, db) ==
    IF kw.agent_id.has
    THEN IF kw.agent_id.t = "list"
         THEN LET node_name == dict_of(groupby(agents))
                  non_existent_ids == SetToSeq(Range(kw.agent_id.v) \
                                               {agents[i].id : i \in DOMAIN agents})
              IN  IF non_existent_ids # <<>>
                  THEN IF DictHas(node_name, own)
                       THEN Solved(DictPut(node_name, own,
                                           DictGet(node_name, own) \o non_existent_ids), kw)
                       ELSE Solved(DictPut(node_name, own, non_existent_ids), kw)
                  ELSE Solved(node_name, kw)
         ELSE IF db[kw.agent_id.v[1]] = NotRegistered
              THEN LookupFailed(kw)
              ELSE Solved(<<[node |-> db[kw.agent_id.v[1]], ids |-> kw.agent_id.v]>>, kw)
    ELSE IF kw.node_id.has
    THEN Solved(<<[node |-> kw.node_id.v, ids |-> <<>>]>>, [kw EXCEPT !.node_id = NoStr])
    ELSE LET runs == groupby(agents)
         IN  Solved(dict_of([i \in DOMAIN runs |-> [node |-> runs[i].node, ids |-> <<>>]]), kw)

\* the sort field each branch of get_solver_node asks the directory for
solver_sort_field(kw) == IF kw.agent_id.has THEN "node" ELSE "node_name"
solver_filter(kw) == IF kw.agent_id.has /\ kw.agent_id.t = "list"
                     THEN Arg(kw.agent_id.v) ELSE NoSeq

\* what the call of get_agents_overview may return; the branches for one id and
\* for a node_id do not call it
solver_overview(db, kw) ==
    IF (kw.agent_id.has /\ kw.agent_id.t = "list") \/ (~kw.agent_id.has /\ ~kw.node_id.has)
    THEN get_agents_overview(db, solver_filter(kw), solver_sort_field(kw))
    ELSE {<<>>}

\* every way nodes = self.get_solver_node() may end, over the contents of the
\* directory; the directory may also raise in the branches that read it
solver_outcomes(kw, own) ==
    UNION {{get_solver_node(kw, own, agents, db) : agents \in solver_overview(db, kw)} :
              db \in Directories}
    \cup (IF kw.agent_id.has \/ ~kw.node_id.has THEN {LookupFailed(kw)} ELSE {})

\* ------------------------------------------------------------ DistributedAPI
NoExc == [wazuh |-> FALSE, code |-> 0, msg |-> ""]
WazuhException(code) == [wazuh |-> TRUE, code |-> code, msg |-> "WazuhException"]
Exception(msg) == [wazuh |-> FALSE, code |-> 0, msg |-> msg]

NoOutcome == [kind |-> "none", json |-> EmptyDict, exc |-> NoExc]
Returned(json) == [kind |-> "returned", json |-> json, exc |-> NoExc]
Raised(exc) == [kind |-> "raised", json |-> EmptyDict, exc |-> exc]

print_json(data, error) ==
    ((IF error # 0 THEN "message" ELSE "data") :> data) @@ ("error" :> JInt(error))

\* a handler that lets every exception but WazuhException escape
handle_wazuh_only(exc, debug) ==
    IF debug \/ ~exc.wazuh THEN Raised(exc)
    ELSE Returned(print_json(JStr(exc.msg), exc.code))

\* a handler that re-raises whatever debug says
handle_reraising(exc, debug) == Raised(exc)

\* except WazuhException / except Exception of distribute_function and of
\* execute_local_request
handle(exc, debug) ==
    IF debug THEN Raised(exc)
    ELSE IF exc.wazuh THEN Returned(print_json(JStr(exc.msg), exc.code))
    ELSE Returned(print_json(JStr(exc.msg), 1000))

\* a routing decision that ignores the cluster status
route_ignoring_status(c, fc) ==
    IF \/ ~c.is_dapi_enabled
       \/ c.request_type = "local_any"
       \/ (c.request_type = "local_master" /\ c.node_type = "master")
       \/ (c.request_type = "distributed_master" /\ fc)
    THEN "local"
    ELSE IF c.request_type = "distributed_master" /\ c.node_type = "master"
    THEN "forward"
    ELSE "remote"

\* the if / elif / else of distribute_function
route(c, fc) ==
    IF \/ ~c.is_dapi_enabled
       \/ c.cluster_status
       \/ c.request_type = "local_any"
       \/ (c.request_type = "local_master" /\ c.node_type = "master")
       \/ (c.request_type = "distributed_master" /\ fc)
    THEN "local"
    ELSE IF c.request_type = "distributed_master" /\ c.node_type = "master"
    THEN "forward"
    ELSE "remote"

\* a deadline that is armed whatever wait_for_complete says
timeout_always(c) == Arg(c.timeout_api_request)

\* timeout = None if self.wait_for_complete else cluster_items[...]['timeout_api_request']
local_timeout(c) == IF c.wait_for_complete THEN NoArg ELSE Arg(c.timeout_api_request)

\* an envelope that does not say where the call comes from
to_dict_no_origin(kw, c, fc) ==
    [f_kwargs |-> kw, request_type |-> c.request_type,
     wait_for_complete |-> c.wait_for_complete, from_cluster |-> FALSE, is_async |-> c.is_async]

to_dict(kw, c, fc) ==
    [f_kwargs |-> kw, request_type |-> c.request_type,
     wait_for_complete |-> c.wait_for_complete, from_cluster |-> fc, is_async |-> c.is_async]

\* a test that sends requests for 'unknown' over a peer channel
is_local_node_no_unknown(node_name, own) == node_name = "" \/ node_name = own

\* node_name == 'unknown' or node_name == '' or node_name == self.node_info['node']
is_local_node(node_name, own) == node_name = "unknown" \/ node_name = "" \/ node_name = own

\* the ids an agent_id argument names
IdsOf(a) == a.v

\* the target function: it answers for the agents it is called with
f_result(agent_id) ==
    JDict(("items" :> JList(IdsOf(agent_id))) @@ ("totalItems" :> JInt(Len(IdsOf(agent_id)))))

NewSub(entry) ==
    [node |-> entry.node, ids |-> entry.ids, kind |-> "new", st |-> "new", fn |-> "none",
     arg |-> NoAgent, timed_out |-> FALSE, out |-> NoOutcome]

\* execute_local_request up to its await: an async function is called at once, a
\* blocking one is handed to the executor and reads self.f_kwargs when it runs
LocalSub(entry, kw, c) ==
    [NewSub(entry) EXCEPT !.kind = "local", !.st = "waiting",
                          !.fn = IF c.is_async THEN "running" ELSE "queued",
                          !.arg = IF c.is_async THEN kw.agent_id ELSE NoAgent]

RemoteSub(entry) == [NewSub(entry) EXCEPT !.kind = "remote", !.st = "waiting"]

\* a re-entered distribute_function that does not take the local branch
ReenteredSub(entry, branch) == [NewSub(entry) EXCEPT !.kind = branch, !.st = "waiting"]

\* self.f_kwargs after the first two lines of forward()
forward_kwargs(entry, kw) ==
    IF entry.ids # <<>> /\ (~kw.agent_id.has \/ kw.agent_id.t = "list")
    THEN [kw EXCEPT !.agent_id = AgentList(entry.ids)]
    ELSE kw

\* forward(node_name) up to its first await, for entry i of the solver map
forward(i, map, kw, c, fc, ss, ch) ==
    LET entry == map[i]
        kw1 == forward_kwargs(entry, kw)
    IN  IF is_local_node(entry.node, c.node)
        THEN [kw |-> kw1, chan |-> ch,
              subs |-> [ss EXCEPT ![i] = IF route(c, fc) = "local"
                                         THEN LocalSub(entry, kw1, c)
                                         ELSE ReenteredSub(entry, route(c, fc))]]
        ELSE [kw |-> kw1,
              chan |-> Append(ch, [cmd |-> "dapi_forward", to |-> entry.node,
                                   call |-> to_dict(kw1, c, fc)]),
              subs |-> [ss EXCEPT ![i] = RemoteSub(entry)]]

\* ----------------------------------------------------------- call marshaling
\* what import_module and getattr find on the receiving node
Importable == {"wazuh.agent"}
ModuleAttrs == {"restart_agents", "Agent"}
ClassAttrs == [c \in {"Agent"} |-> {"get_agents_overview"}]
WazuhAttrs == {"get_ossec_init"}

Decoded(target) == [raised |-> "none", target |-> target]
DecodeError(e) == [raised |-> e, target |-> <<>>]

\* dct: a JSON object as json.loads hands it to the object hook; marker says
\* whether it has the key '__callable__', the other fields are the keys under it
as_callable(dct) ==
    IF dct.marker
    THEN IF ~dct.name.has THEN DecodeError("TypeError")
         ELSE IF dct.wazuh.has
         THEN IF dct.name.v \in WazuhAttrs
              THEN Decoded(<<"Wazuh", dct.wazuh.v, dct.name.v>>)
              ELSE DecodeError("TypeError")
         ELSE IF ~dct.qualname.has \/ ~dct.module.has THEN DecodeError("TypeError")
         ELSE IF dct.module.v \notin Importable THEN DecodeError("ModuleNotFoundError")
         ELSE IF Len(dct.qualname.v) > 1
         THEN LET classname == dct.qualname.v[1]
              IN  IF classname \in ModuleAttrs /\ classname \in DOMAIN ClassAttrs
                     /\ dct.name.v \in ClassAttrs[classname]
                  THEN Decoded(<<dct.module.v, classname, dct.name.v>>)
                  ELSE DecodeError("TypeError")
         ELSE IF dct.name.v \in ModuleAttrs
              THEN Decoded(<<dct.module.v, dct.name.v>>)
              ELSE DecodeError("TypeError")
    ELSE Decoded(<<"dict">>)

\* a function object: __name__, __module__, __qualname__ (its dotted parts) and,
\* for a bound method of a Wazuh object, the ossec path of __self__
Fn(name, module, qualname, self) ==
    [name |-> name, module |-> module, qualname |-> qualname, self |-> self]

\* obj.__self__.to_dict(): it carries the path the Wazuh object was built with
Wazuh_to_dict(path) == Arg(path)

\* CallableEncoder.default(obj) for a callable obj: the dict under '__callable__'
CallableEncoder_default(obj) ==
    [marker |-> TRUE, name |-> Arg(obj.name), module |-> Arg(obj.module),
     qualname |-> Arg(obj.qualname),
     wazuh |-> IF obj.self.has THEN Wazuh_to_dict(obj.self.v) ELSE NoStr]

\* the object a function reference stands for
TargetOf(obj) ==
    IF obj.self.has THEN <<"Wazuh", obj.self.v, obj.name>> ELSE <<obj.module>> \o obj.qualname

\* ------------------------------------------------------------ the requests
NoKwargs == [agent_id |-> NoAgent, node_id |-> NoStr, offset |-> NoArg, limit |-> NoArg,
             sort |-> NoStr]

IdLists(n) == {l \in SeqsUpTo(Ids, n) : NoDup(l)}
NodeIds == {"nodeA", "masterX", "unknown", ""}

\* requests by the target they name: an id list, one id, a node, or the whole fleet
Requests(n) ==
    {[NoKwargs EXCEPT !.agent_id = AgentList(l)] : l \in IdLists(n)} \cup
    {[NoKwargs EXCEPT !.agent_id = AgentId(a)] : a \in Ids} \cup
    {[NoKwargs EXCEPT !.node_id = Arg(n_id)] : n_id \in NodeIds} \cup
    {NoKwargs}

\* ------------------------------------------------- components at rest
timeout_api_request == 200

Configs ==
    {[node_type |-> nt, node |-> IF nt = "master" THEN OwnNode ELSE "nodeA",
      request_type |-> rt, from_cluster |-> fc, is_dapi_enabled |-> en,
      cluster_status |-> cs, debug |-> dbg, wait_for_complete |-> wfc, is_async |-> asy,
      timeout_api_request |-> timeout_api_request] :
        nt \in {"master", "worker"},
        rt \in {"local_any", "local_master", "distributed_master"},
        fc \in BOOLEAN, en \in BOOLEAN, cs \in BOOLEAN, dbg \in BOOLEAN,
        wfc \in BOOLEAN, asy \in BOOLEAN}

DapiIdle ==
    /\ cfg = CHOOSE c \in Configs : TRUE
    /\ from_cluster = FALSE
    /\ f_kwargs = NoKwargs
    /\ pc = "idle"
    /\ taken = <<>>
    /\ nodes = <<>>
    /\ subs = <<>>
    /\ chan = <<>>
    /\ pending = NoOutcome
    /\ ret = NoOutcome
    /\ failures = {}

NotSolved == [done |-> FALSE, agents |-> <<>>, res |-> Solved(<<>>, NoKwargs)]

SolverIdle ==
    /\ s_db = [a \in Ids |-> NotRegistered]
    /\ s_kwargs = NoKwargs
    /\ s_solved = NotSolved

\* asked: the paging arguments the merge was called with
NotMerged == [done |-> FALSE, json |-> EmptyDict, asked |-> NoKwargs]

MergeIdle ==
    /\ m_responses = <<>>
    /\ m_kwargs = NoKwargs
    /\ merged = NotMerged

EncFunction(name, module, qualname) ==
    [marker |-> TRUE, name |-> name, module |-> module, qualname |-> qualname, wazuh |-> NoStr]

GoodCall == EncFunction(Arg("restart_agents"), Arg("wazuh.agent"), Arg(<<"restart_agents">>))

\* a raw request "<peer>*<suffix> <json>": sep says whether it holds a space,
\* suffix whether the token holds a '*', json_ok whether the rest is JSON
Raw(sep, peer, suffix, json_ok, call) ==
    [sep |-> sep, peer |-> peer, suffix |-> suffix, json_ok |-> json_ok, f |-> call]

NoRequest == [id |-> 0, raw |-> Raw(TRUE, "None", NoStr, TRUE, GoodCall)]

\* functions a call may name: module-level, defined in a class, defined in a class
\* nested in a class, bound methods of Wazuh objects
Functions ==
    {Fn("restart_agents", "wazuh.agent", <<"restart_agents">>, NoStr),
     Fn("get_agents_overview", "wazuh.agent", <<"Agent", "get_agents_overview">>, NoStr),
     Fn("get_agents_overview", "wazuh.agent", <<"Agent", "Inner", "get_agents_overview">>, NoStr),
     Fn("f", "wazuh.agent", <<"Agent", "Inner", "f">>, NoStr),
     Fn("get_ossec_init", "wazuh", <<"Wazuh", "get_ossec_init">>, Arg("/var/ossec")),
     Fn("get_ossec_init", "wazuh", <<"Wazuh", "get_ossec_init">>, Arg("/opt/ossec"))}

NoCall == [f |-> Fn("restart_agents", "wazuh.agent", <<"restart_agents">>, NoStr),
           call |-> to_dict(NoKwargs, CHOOSE c \in Configs : TRUE, FALSE)]
NoWire == [sent |-> FALSE, damage |-> "none", f |-> GoodCall, call |-> NoCall.call]
NotDecoded == [done |-> FALSE, res |-> Decoded(<<>>), call |-> NoCall.call]

MarshalIdle ==
    /\ w_call = NoCall
    /\ w_wire = NoWire
    /\ w_got = NotDecoded

QueueIdle ==
    /\ request_queue = <<>>
    /\ q_pc = "idle"
    /\ q_cur = NoRequest
    /\ q_sent = <<>>
    /\ q_added = <<>>
    /\ q_got = <<>>
    /\ q_logged = <<>>

\* ------------------------------------------- specification of one request
InitDapi ==
    /\ cfg \in Configs
    /\ from_cluster = cfg.from_cluster
    /\ f_kwargs \in Requests(MaxReq)
    /\ pc = "start"
    /\ taken = <<>>
    /\ nodes = <<>>
    /\ subs = <<>>
    /\ chan = <<>>
    /\ pending = NoOutcome
    /\ ret = NoOutcome
    /\ failures = {}

\* what the caller of distribute_function gets when the call it awaits ends with o
final(o) == IF o.kind = "raised" THEN handle(o.exc, cfg.debug) ELSE o

\* the await of sub-call i ends with outcome o; why names the failed step, if any
Complete(i, o, why) ==
    /\ IF pc = "gather"
       THEN /\ pending' = IF o.kind = "raised" /\ pending.kind = "none" THEN o ELSE pending
            /\ failures' = failures \cup why
            /\ UNCHANGED <<pc, ret>>
       ELSE IF pc \in {"local", "single", "remote"}
       THEN /\ ret' = final(o)
            /\ pc' = "done"
            /\ failures' = failures \cup why
            /\ UNCHANGED pending
       ELSE UNCHANGED <<pc, ret, pending, failures>>

\* distribute_function, first branch: return await self.execute_local_request()
DistributeLocal ==
    /\ pc = "start"
    /\ route(cfg, from_cluster) = "local"
    /\ taken' = Append(taken, "local")
    /\ subs' = <<LocalSub([node |-> cfg.node, ids |-> <<>>], f_kwargs, cfg)>>
    /\ pc' = "local"
    /\ UNCHANGED <<cfg, from_cluster, f_kwargs, nodes, chan, pending, ret, failures>>
    /\ UNCHANGED <<solverVars, mergeVars, queueVars, marshalVars>>

\* distribute_function, last branch: return await self.execute_remote_request()
DistributeRemote ==
    /\ pc = "start"
    /\ route(cfg, from_cluster) = "remote"
    /\ taken' = Append(taken, "remote")
    /\ chan' = Append(chan, [cmd |-> "dapi", to |-> "master",
                             call |-> to_dict(f_kwargs, cfg, from_cluster)])
    /\ subs' = <<RemoteSub([node |-> "master", ids |-> <<>>])>>
    /\ pc' = "remote"
    /\ UNCHANGED <<cfg, from_cluster, f_kwargs, nodes, pending, ret, failures>>
    /\ UNCHANGED <<solverVars, mergeVars, queueVars, marshalVars>>

\* distribute_function, second branch: forward_request up to its first await
DistributeForward ==
    /\ pc = "start"
    /\ route(cfg, from_cluster) = "forward"
    /\ taken' = Append(taken, "forward")
    /\ \E res \in solver_outcomes(f_kwargs, cfg.node) :
        IF res.raised
        THEN /\ ret' = handle(WazuhException(1701), cfg.debug)
             /\ pc' = "done"
             /\ failures' = failures \cup {"lookup"}
             /\ UNCHANGED <<from_cluster, f_kwargs, nodes, subs, chan>>
        ELSE /\ nodes' = res.nodes
             /\ from_cluster' = TRUE
             /\ IF Len(res.nodes) > 1
                THEN /\ subs' = [i \in DOMAIN res.nodes |-> NewSub(res.nodes[i])]
                     /\ f_kwargs' = res.kw
                     /\ pc' = "gather"
                     /\ UNCHANGED <<chan, ret, failures>>
                ELSE IF Len(res.nodes) = 1
                THEN LET started == forward(1, res.nodes, res.kw, cfg, TRUE,
                                            <<NewSub(res.nodes[1])>>, chan)
                     IN  /\ subs' = started.subs
                         /\ chan' = started.chan
                         /\ f_kwargs' = started.kw
                         /\ pc' = "single"
                         /\ UNCHANGED <<ret, failures>>
                ELSE \* next(iter(nodes.items())) on an empty map: StopIteration
                     /\ ret' = handle(Exception(""), cfg.debug)
                     /\ pc' = "done"
                     /\ failures' = failures \cup {"empty"}
                     /\ f_kwargs' = res.kw
                     /\ UNCHANGED <<subs, chan>>
    /\ UNCHANGED <<cfg, pending>>
    /\ UNCHANGED <<solverVars, mergeVars, queueVars, marshalVars>>

\* asyncio.gather starts the forward() sub-calls in the order of the solver map
Forward(i) ==
    /\ pc = "gather"
    /\ subs[i].st = "new"
    /\ \A j \in 1..(i - 1) : subs[j].st # "new"
    /\ LET started == forward(i, nodes, f_kwargs, cfg, from_cluster, subs, chan)
       IN  /\ subs' = started.subs
           /\ chan' = started.chan
           /\ f_kwargs' = started.kw
    /\ UNCHANGED <<cfg, from_cluster, pc, taken, nodes, pending, ret, failures>>
    /\ UNCHANGED <<solverVars, mergeVars, queueVars, marshalVars>>

\* run_local on the executor thread: data = self.f(**self.f_kwargs)
RunLocal(i) ==
    /\ subs[i].fn = "queued"
    /\ subs' = [subs EXCEPT ![i].fn = "running", ![i].arg = f_kwargs.agent_id]
    /\ UNCHANGED <<cfg, from_cluster, f_kwargs, pc, taken, nodes, chan, pending, ret, failures>>
    /\ UNCHANGED <<solverVars, mergeVars, queueVars, marshalVars>>

\* the target function returns or raises
FunctionEnds(i, how) ==
    /\ subs[i].fn = "running"
    /\ LET o == IF how = "ok" THEN Returned(print_json(f_result(subs[i].arg), 0))
                ELSE IF how = "wazuh" THEN handle(WazuhException(1701), cfg.debug)
                ELSE handle(Exception("error"), cfg.debug)
           fn1 == IF how = "ok" THEN "returned" ELSE "raised"
       IN  IF subs[i].st = "waiting"
           THEN /\ subs' = [subs EXCEPT ![i].fn = fn1, ![i].out = o,
                                        ![i].st = IF o.kind = "raised" THEN "failed" ELSE "done"]
                /\ Complete(i, o, IF how = "ok" THEN {} ELSE {"target"})
           ELSE /\ subs' = [subs EXCEPT ![i].fn = fn1]
                /\ UNCHANGED <<pc, ret, pending, failures>>
    /\ UNCHANGED <<cfg, from_cluster, f_kwargs, taken, nodes, chan>>
    /\ UNCHANGED <<solverVars, mergeVars, queueVars, marshalVars>>

\* asyncio.wait_for gives up: the awaited future is cancelled, which stops an async
\* function and a queued executor job but not a thread that already runs
Deadline(i) ==
    /\ subs[i].kind = "local"
    /\ subs[i].st = "waiting"
    /\ local_timeout(cfg).has
    /\ subs[i].fn \in {"queued", "running"}
    /\ LET o == handle(WazuhException(3021), cfg.debug)
       IN  /\ subs' = [subs EXCEPT ![i].timed_out = TRUE, ![i].out = o,
                                   ![i].st = IF o.kind = "raised" THEN "failed" ELSE "done",
                                   ![i].fn = IF cfg.is_async \/ subs[i].fn = "queued"
                                             THEN "cancelled" ELSE @]
           /\ Complete(i, o, {"deadline"})
    /\ UNCHANGED <<cfg, from_cluster, f_kwargs, taken, nodes, chan>>
    /\ UNCHANGED <<solverVars, mergeVars, queueVars, marshalVars>>

\* the call this sub-call sent
SentCall(i) ==
    chan[CHOOSE m \in DOMAIN chan : chan[m].to = subs[i].node].call

\* self.node.execute returns or raises; the reply of a dapi_forward is parsed
PeerReplies(i, reply) ==
    /\ subs[i].kind = "remote"
    /\ subs[i].st = "waiting"
    /\ reply = "bad_json" => pc # "remote" /\ taken = <<"forward">>
    /\ LET o == CASE reply = "ok" ->
                        Returned(print_json(f_result(SentCall(i).f_kwargs.agent_id), 0))
                  [] reply = "error" -> Returned(print_json(JStr("WazuhException"), 1701))
                  [] reply = "channel" -> Raised(WazuhException(3020))
                  [] OTHER -> Raised(Exception("JSONDecodeError"))
       IN  /\ subs' = [subs EXCEPT ![i].out = o,
                                   ![i].st = IF o.kind = "raised" THEN "failed" ELSE "done"]
           /\ Complete(i, o, IF reply = "channel" THEN {"channel"}
                             ELSE IF reply = "bad_json" THEN {"parse"} ELSE {})
    /\ UNCHANGED <<cfg, from_cluster, f_kwargs, taken, nodes, chan>>
    /\ UNCHANGED <<solverVars, mergeVars, queueVars, marshalVars>>

\* the gather ends: with the first exception of a sub-call, or with every result,
\* which merge_results merges
GatherEnds ==
    /\ pc = "gather"
    /\ \A i \in DOMAIN subs : subs[i].st # "new"
    /\ IF pending.kind = "raised"
       THEN /\ ret' = handle(pending.exc, cfg.debug)
            /\ UNCHANGED f_kwargs
       ELSE /\ \A i \in DOMAIN subs : subs[i].st = "done"
            /\ LET results == [i \in DOMAIN subs |-> subs[i].out.json]
               IN  /\ ret' = Returned(merge_results(results, EmptyDict, f_kwargs))
                   /\ f_kwargs' = IF HasItems(merge_loop(results, EmptyDict, f_kwargs))
                                  THEN page_kwargs(f_kwargs) ELSE f_kwargs
    /\ pc' = "done"
    /\ UNCHANGED <<cfg, from_cluster, taken, nodes, subs, chan, pending, failures>>
    /\ UNCHANGED <<solverVars, mergeVars, queueVars, marshalVars>>

NextDapi ==
    \/ DistributeLocal
    \/ DistributeRemote
    \/ DistributeForward
    \/ \E i \in DOMAIN subs : Forward(i)
    \/ \E i \in DOMAIN subs : RunLocal(i)
    \/ \E i \in DOMAIN subs, how \in {"ok", "wazuh", "other"} : FunctionEnds(i, how)
    \/ \E i \in DOMAIN subs : Deadline(i)
    \/ \E i \in DOMAIN subs, reply \in {"ok", "error", "channel", "bad_json"} :
          PeerReplies(i, reply)
    \/ GatherEnds

Init == InitDapi /\ SolverIdle /\ MergeIdle /\ QueueIdle /\ MarshalIdle

Spec == Init /\ [][NextDapi]_vars

\* ---------------------------------- specification of the inbound queue
\* the peers connected to this server (self.server.clients)
Clients == {"nodeA", "nodeB"}

RawRequests ==
    {Raw(TRUE, p, x, TRUE, GoodCall) : p \in {"None", "nodeA"}, x \in {NoStr, Arg("7")}} \cup
    {Raw(FALSE, "None", NoStr, TRUE, GoodCall),
     Raw(TRUE, "nodeZ", Arg("7"), TRUE, GoodCall),
     Raw(TRUE, "None", Arg("7"), FALSE, GoodCall),
     Raw(TRUE, "None", Arg("7"), TRUE,
         EncFunction(NoStr, Arg("wazuh.agent"), Arg(<<"restart_agents">>))),
     Raw(TRUE, "None", Arg("7"), TRUE,
         EncFunction(Arg("restart_agents"), Arg("wazuh.gone"), Arg(<<"restart_agents">>)))}

InitQueue ==
    /\ request_queue = <<>>
    /\ q_pc = "get"
    /\ q_cur = NoRequest
    /\ q_sent = <<>>
    /\ q_added = <<>>
    /\ q_got = <<>>
    /\ q_logged = <<>>

\* the lines of run() between the get and the await of distribute_function: the
\* exception they raise, "none" if they raise none
parse_error(raw) ==
    IF ~raw.sep THEN "ValueError"
    ELSE IF raw.peer # "None" /\ raw.peer \notin Clients THEN "KeyError"
    ELSE IF ~raw.json_ok THEN "JSONDecodeError"
    ELSE as_callable(raw.f).raised

\* a queue that drops a request added while others wait
put_nowait_dropping(queue, item) == IF queue = <<>> THEN <<item>> ELSE queue

\* asyncio.Queue().put_nowait on an unbounded queue
put_nowait(queue, item) == Append(queue, item)

\* add_request(request)
AddRequest(raw) ==
    /\ Len(q_added) < MaxRequests
    /\ LET item == [id |-> Len(q_added) + 1, raw |-> raw]
       IN  /\ request_queue' = put_nowait(request_queue, item)
           /\ q_added' = Append(q_added, item)
    /\ UNCHANGED <<q_pc, q_cur, q_sent, q_got, q_logged>>
    /\ UNCHANGED <<dapiVars, solverVars, mergeVars, marshalVars>>

\* run(): a request is taken, split and decoded, and the call is started; an
\* exception raised on the way ends run()
Get ==
    /\ q_pc = "get"
    /\ request_queue # <<>>
    /\ LET item == Head(request_queue)
       IN  /\ request_queue' = Tail(request_queue)
           /\ q_got' = Append(q_got, item)
           /\ q_cur' = item
           /\ q_pc' = IF parse_error(item.raw) = "none" THEN "distribute" ELSE "crashed"
    /\ UNCHANGED <<q_sent, q_added, q_logged>>
    /\ UNCHANGED <<dapiVars, solverVars, mergeVars, marshalVars>>

name_2(raw) == IF raw.suffix.has THEN <<raw.suffix.v, " ">> ELSE <<>>

\* run(): distribute_function returned (it does not raise: debug is off), and the
\* envelope is handed to node.send_string
Distributed(error) ==
    /\ q_pc = "distribute"
    /\ q_sent' = Append(q_sent, [id |-> q_cur.id, op |-> "send_string", node |-> q_cur.raw.peer,
                                 cmd |-> "", body |-> <<error>>])
    /\ q_pc' = "send_string"
    /\ UNCHANGED <<request_queue, q_cur, q_added, q_got, q_logged>>
    /\ UNCHANGED <<dapiVars, solverVars, mergeVars, marshalVars>>

\* run(): send_string ended; its token chooses the control message
SendStringEnds(token) ==
    /\ q_pc = "send_string"
    /\ IF token = "raise"
       THEN /\ q_pc' = "crashed"
            /\ UNCHANGED <<q_sent, q_logged>>
       ELSE /\ q_logged' = IF token = "Error" THEN Append(q_logged, token) ELSE q_logged
            /\ q_sent' = Append(q_sent,
                                [id |-> q_cur.id, op |-> "send_request", node |-> q_cur.raw.peer,
                                 cmd |-> IF token = "Error" THEN "dapi_err" ELSE "dapi_res",
                                 body |-> name_2(q_cur.raw) \o <<token>>])
            /\ q_pc' = "send_request"
    /\ UNCHANGED <<request_queue, q_cur, q_added, q_got>>
    /\ UNCHANGED <<dapiVars, solverVars, mergeVars, marshalVars>>

\* run(): send_request ended; run() goes back to the get
SendRequestEnds(result) ==
    /\ q_pc = "send_request"
    /\ IF result = "raise"
       THEN /\ q_pc' = "crashed"
            /\ UNCHANGED q_logged
       ELSE /\ q_logged' = IF result = "Error" THEN Append(q_logged, result) ELSE q_logged
            /\ q_pc' = "get"
    /\ UNCHANGED <<request_queue, q_cur, q_sent, q_added, q_got>>
    /\ UNCHANGED <<dapiVars, solverVars, mergeVars, marshalVars>>

NextQueue ==
    \/ \E raw \in RawRequests : AddRequest(raw)
    \/ Get
    \/ \E error \in {0, 1000} : Distributed(error)
    \/ \E token \in {"task_id", "Error", "raise"} : SendStringEnds(token)
    \/ \E result \in {"ok", "Error", "raise"} : SendRequestEnds(result)

QueueInit == InitQueue /\ DapiIdle /\ SolverIdle /\ MergeIdle /\ MarshalIdle

SpecQueue == QueueInit /\ [][NextQueue]_vars

\* ------------------------------------- specification of a solver resolution
InitSolver ==
    /\ s_db \in Directories
    /\ s_kwargs \in Requests(MaxAgents)
    /\ s_solved = NotSolved

\* nodes = self.get_solver_node()
GetSolverNode ==
    /\ ~s_solved.done
    /\ \E agents \in solver_overview(s_db, s_kwargs) :
          LET res == get_solver_node(s_kwargs, OwnNode, agents, s_db) IN
          /\ s_solved' = [done |-> TRUE, agents |-> agents, res |-> res]
          /\ s_kwargs' = res.kw
    /\ UNCHANGED s_db
    /\ UNCHANGED <<dapiVars, mergeVars, queueVars, marshalVars>>

NextSolver == GetSolverNode

SolverInit == InitSolver /\ DapiIdle /\ MergeIdle /\ QueueIdle /\ MarshalIdle

SpecSolver == SolverInit /\ [][NextSolver]_vars

\* ------------------------------------------------- specification of a merge
Elems == {"A", "B", "C"}

ItemLists == SeqsUpTo(Elems, MaxListLen)

\* integer and string fields a node's answer may carry (the same at every depth)
IntVariants ==
    { [error |-> Arg(0), total |-> Arg(2), n |-> Arg(5),
       msg |-> Arg("All selected agents were restarted")],
      [error |-> Arg(1000), total |-> Arg(3), n |-> Arg(7),
       msg |-> Arg("Some agents were not restarted")],
      [error |-> NoArg, total |-> Arg(3), n |-> NoArg,
       msg |-> Arg("All selected agents were restarted")],
      [error |-> Arg(1000), total |-> NoArg, n |-> Arg(5), msg |-> NoStr],
      [error |-> Arg(0), total |-> Arg(2), n |-> Arg(5), msg |-> Arg("Restarting agents")] }

OptInt(key, a) == IF a.has THEN key :> JInt(a.v) ELSE EmptyDict
OptStr(key, a) == IF a.has THEN key :> JStr(a.v) ELSE EmptyDict

Ints(iv) == OptInt("error", iv.error) @@ OptInt("totalItems", iv.total) @@ OptInt("n", iv.n)

\* the items of an answer are comparable values: the element's rank
Rank(x) == CASE x = "A" -> 1 [] x = "B" -> 2 [] OTHER -> 3
Ranks(l) == [i \in DOMAIN l |-> Rank(l[i])]

\* the answer of one node: integers at depth 0, 1 and 2, lists and a message at depth 1
Contributor(l, iv) ==
    Ints(iv) @@
    ("data" :> JDict(Ints(iv) @@ OptStr("msg", iv.msg) @@
                     ("affected_agents" :> JList(l)) @@
                     ("items" :> JList(Ranks(l))) @@
                     ("sub" :> JDict(Ints(iv)))))

BaseInts == [error |-> Arg(0), total |-> Arg(2), n |-> Arg(5),
             msg |-> Arg("All selected agents were restarted")]
BaseList == <<"A">>

\* the merge treats every key on its own: the answers vary in their list or in
\* their integer and string fields
Contributors ==
    {Contributor(l, BaseInts) : l \in ItemLists} \cup
    {Contributor(BaseList, iv) : iv \in IntVariants}

\* the paging arguments of a request: none, all three, a limit and a sort with the
\* default offset, an offset with the default limit and no sort
PageRequests ==
    {NoKwargs,
     [NoKwargs EXCEPT !.offset = Arg(1), !.limit = Arg(2), !.sort = Arg("desc")],
     [NoKwargs EXCEPT !.limit = Arg(1), !.sort = Arg("asc")],
     [NoKwargs EXCEPT !.offset = Arg(2)]}

InitMerge ==
    /\ m_responses \in SeqsUpTo(Contributors, MaxContrib) \ {<<>>}
    /\ m_kwargs \in PageRequests
    /\ merged = NotMerged

\* response = self.merge_results(results, final_json)
MergeResults ==
    /\ ~merged.done
    /\ LET raw == merge_loop(m_responses, EmptyDict, m_kwargs) IN
       /\ merged' = [done |-> TRUE, json |-> merge_results(m_responses, EmptyDict, m_kwargs),
                     asked |-> m_kwargs]
       /\ m_kwargs' = IF HasItems(raw) THEN page_kwargs(m_kwargs) ELSE m_kwargs
    /\ UNCHANGED m_responses
    /\ UNCHANGED <<dapiVars, solverVars, queueVars, marshalVars>>

NextMerge == MergeResults

MergeInit == InitMerge /\ DapiIdle /\ SolverIdle /\ QueueIdle /\ MarshalIdle

SpecMerge == MergeInit /\ [][NextMerge]_vars

\* ------------------------------------ specification of a call between nodes
InitMarshal ==
    /\ \E fn \in Functions, kw \in Requests(MaxReq), c \in Configs, fc \in BOOLEAN :
          /\ c.node_type = "master" /\ c.is_dapi_enabled /\ ~c.cluster_status /\ ~c.debug
          /\ ~c.from_cluster
          /\ w_call = [f |-> fn, call |-> to_dict(kw, c, fc)]
    /\ w_wire = NoWire
    /\ w_got = NotDecoded

\* json.dumps(self.to_dict(), cls=CallableEncoder)
Encode ==
    /\ ~w_wire.sent
    /\ w_wire' = [sent |-> TRUE, damage |-> "none", f |-> CallableEncoder_default(w_call.f),
                  call |-> w_call.call]
    /\ UNCHANGED <<w_call, w_got>>
    /\ UNCHANGED <<dapiVars, solverVars, mergeVars, queueVars>>

\* the ways an envelope can be malformed when it arrives
Damages == {"no_marker", "no_name", "no_module", "no_qualname", "bad_module", "bad_attr"}

Damaged(f, how) ==
    CASE how = "no_marker" -> [f EXCEPT !.marker = FALSE]
      [] how = "no_name" -> [f EXCEPT !.name = NoStr]
      [] how = "no_module" -> [f EXCEPT !.module = NoStr]
      [] how = "no_qualname" -> [f EXCEPT !.qualname = NoSeq]
      [] how = "bad_module" -> [f EXCEPT !.module = Arg("wazuh.gone")]
      [] OTHER -> [f EXCEPT !.name = Arg("gone")]

\* a malformed envelope arrives instead of the one that was encoded; the encoding
\* of a Wazuh method is resolved without its module and qualified name
Damage(how) ==
    /\ w_wire.sent /\ w_wire.damage = "none" /\ ~w_got.done
    /\ how \in {"no_module", "no_qualname", "bad_module"} => ~w_wire.f.wazuh.has
    /\ w_wire' = [w_wire EXCEPT !.damage = how, !.f = Damaged(w_wire.f, how)]
    /\ UNCHANGED <<w_call, w_got>>
    /\ UNCHANGED <<dapiVars, solverVars, mergeVars, queueVars>>

\* json.loads(request, object_hook=as_callable)
Decode ==
    /\ w_wire.sent /\ ~w_got.done
    /\ w_got' = [done |-> TRUE, res |-> as_callable(w_wire.f), call |-> w_wire.call]
    /\ UNCHANGED <<w_call, w_wire>>
    /\ UNCHANGED <<dapiVars, solverVars, mergeVars, queueVars>>

NextMarshal ==
    \/ Encode
    \/ \E how \in Damages : Damage(how)
    \/ Decode

MarshalInit == InitMarshal /\ DapiIdle /\ SolverIdle /\ MergeIdle /\ QueueIdle

SpecMarshal == MarshalInit /\ [][NextMarshal]_vars

\* ----------------------------------------------------- claims on one request
LocalCase ==
    \/ ~cfg.is_dapi_enabled
    \/ cfg.cluster_status
    \/ cfg.request_type = "local_any"
    \/ (cfg.request_type = "local_master" /\ cfg.node_type = "master")
    \/ (cfg.request_type = "distributed_master" /\ cfg.from_cluster)
ForwardCase == ~LocalCase /\ cfg.request_type = "distributed_master" /\ cfg.node_type = "master"
RemoteCase == ~LocalCase /\ ~ForwardCase

Sent(cmd) == {m \in DOMAIN chan : chan[m].cmd = cmd}
SentTo(node) == {m \in DOMAIN chan : chan[m].to = node}

\* C1: whatever the node type, routing mode, from_cluster, enabled flag and cluster
\* status, distribute_function enters exactly one branch, the first that matches:
\* local, else forward, else execute-remote, which sends the call to the master's
\* channel exactly once.
C1_Routing ==
    /\ pc = "start" => taken = <<>>
    /\ pc # "start" =>
          /\ Len(taken) = 1
          /\ taken[1] = "local" <=> LocalCase
          /\ taken[1] = "forward" <=> ForwardCase
          /\ taken[1] = "remote" <=> RemoteCase
          /\ taken[1] = "remote" =>
                /\ Len(chan) = 1
                /\ chan[1].cmd = "dapi" /\ chan[1].to = "master"
                /\ chan[1].call = to_dict(f_kwargs, cfg, cfg.from_cluster)
          /\ taken[1] = "local" => chan = <<>>
          /\ taken[1] # "remote" => Sent("dapi") = {}

C1_Witness ==
    /\ pc = "done"
    /\ taken = <<"remote">>
    /\ cfg.node_type = "worker" /\ cfg.request_type = "local_master"
    /\ Len(chan) = 1

ErrorOf(o) == o.json["error"].v

\* C2: with debug off distribute_function never raises: whatever step failed (the
\* target function, the deadline, the agent directory, a peer channel, the parse of
\* a peer's reply), it returns an envelope with a non-zero error code; with debug
\* on the same failures are raised.
C2_NeverRaises ==
    pc = "done" =>
        /\ ~cfg.debug => ret.kind = "returned"
        /\ ~cfg.debug /\ failures # {} => ErrorOf(ret) # 0 /\ "message" \in DOMAIN ret.json
        /\ cfg.debug /\ failures # {} => ret.kind = "raised"

C2_Witness ==
    /\ pc = "done"
    /\ ~cfg.debug
    /\ taken = <<"forward">>
    /\ failures = {"parse"}
    /\ ret.kind = "returned"
    /\ ErrorOf(ret) = 1000

ChannelFailed(i) ==
    subs[i].kind = "remote" /\ subs[i].st = "failed" /\ subs[i].out.exc = WazuhException(3020)
Succeeded(i) == subs[i].st = "done" /\ ErrorOf(subs[i].out) = 0
ItemsOf(json) == Range(json["data"].v["items"].v)

\* C3: in a fan-out to two or more nodes where one sub-call's peer channel fails
\* and the others succeed, the response is produced only after every sub-call has
\* completed and it holds the data of the sub-calls that succeeded.
C3_ChannelFailureMerged ==
    (/\ pc = "done"
     /\ ~cfg.debug
     /\ Len(subs) >= 2
     /\ \E i \in DOMAIN subs : ChannelFailed(i)
     /\ \A i \in DOMAIN subs : ~ChannelFailed(i) => subs[i].st = "waiting" \/ Succeeded(i))
    =>
    /\ \A i \in DOMAIN subs : subs[i].st # "waiting"
    /\ \A i \in DOMAIN subs :
          Succeeded(i) => /\ ret.kind = "returned"
                          /\ "data" \in DOMAIN ret.json
                          /\ ItemsOf(subs[i].out.json) \subseteq ItemsOf(ret.json)

Envelope3021 == print_json(JStr("WazuhException"), 3021)

\* C6: the local execution has a deadline exactly when wait_for_complete is false;
\* when the deadline fires before the function has finished the result (debug off)
\* is the envelope with error 3021 and no data; with wait_for_complete no deadline
\* fires and the function's result is returned with error 0.
C6_Deadline ==
    \A i \in DOMAIN subs :
        subs[i].kind = "local" =>
            /\ subs[i].timed_out => ~cfg.wait_for_complete
            /\ subs[i].timed_out /\ ~cfg.debug =>
                  /\ subs[i].out = Returned(Envelope3021)
                  /\ "data" \notin DOMAIN subs[i].out.json
                  /\ pc = "done" /\ taken = <<"local">> => ret = Returned(Envelope3021)
            /\ subs[i].st = "waiting" /\ subs[i].fn \in {"queued", "running"} =>
                  (ENABLED Deadline(i) <=> ~cfg.wait_for_complete)
            /\ cfg.wait_for_complete /\ subs[i].fn = "returned" =>
                  /\ subs[i].out = Returned(print_json(f_result(subs[i].arg), 0))
                  /\ pc = "done" /\ taken = <<"local">> => ret = subs[i].out

C6_Witness ==
    /\ pc = "done"
    /\ taken = <<"local">>
    /\ ~cfg.debug /\ ~cfg.wait_for_complete
    /\ subs[1].timed_out
    /\ ret = Returned(Envelope3021)

Started(i) == subs[i].st # "new"

\* C7: in a forward, an entry of the solver map named like this node, '' or
\* 'unknown' is executed in-process and nothing is sent for it on a peer channel;
\* for every other entry exactly one dapi_forward is sent, addressed to its node.
C7_ForwardToSelf ==
    taken = <<"forward">> =>
        /\ \A m \in DOMAIN chan : chan[m].cmd = "dapi_forward"
        /\ \A m \in DOMAIN chan : \E i \in DOMAIN nodes : Started(i) /\ chan[m].to = nodes[i].node
        /\ \A i \in DOMAIN subs :
              IF nodes[i].node \in {cfg.node, "", "unknown"}
              THEN /\ SentTo(nodes[i].node) = {}
                   /\ Started(i) => subs[i].kind = "local" /\ subs[i].fn # "none"
              ELSE /\ Started(i) => Cardinality(SentTo(nodes[i].node)) = 1 /\ subs[i].kind = "remote"
                   /\ ~Started(i) => SentTo(nodes[i].node) = {}

C7_Witness ==
    /\ pc = "done"
    /\ taken = <<"forward">>
    /\ \E i, j \in DOMAIN subs :
          /\ nodes[i].node = "unknown" /\ subs[i].kind = "local" /\ subs[i].fn = "returned"
          /\ nodes[j].node = "nodeA" /\ subs[j].kind = "remote"
    /\ Len(chan) = 1

\* ------------------------------------------------ claims on the inbound queue
\* C4: run() survives every bad request: a malformed entry, or one whose handling
\* or reply send fails, is dropped and run() goes on with the requests behind it.
C4_LoopSurvives == q_pc # "crashed"

SentFor(id, op) == {m \in DOMAIN q_sent : q_sent[m].id = id /\ q_sent[m].op = op}
Answered(id) == SentFor(id, "send_string") # {} /\ SentFor(id, "send_request") # {}

\* C5: requests are handled one at a time in the order of add_request: at most one
\* dequeued request is unanswered, a request is dequeued only after the payload
\* and the control message of the one before it were sent, and add_request, which
\* is always possible, loses none.
C5_InOrder ==
    /\ q_added = q_got \o request_queue
    /\ \A k \in DOMAIN q_got : k < Len(q_got) => Answered(q_got[k].id)
    /\ Cardinality({k \in DOMAIN q_got : ~Answered(q_got[k].id)}) <= 1
    /\ \A m \in DOMAIN q_sent : q_sent[m].id = q_got[Len(q_got)].id \/ Answered(q_sent[m].id)
    /\ \A m, n \in DOMAIN q_sent : m < n => q_sent[m].id <= q_sent[n].id
    /\ Len(q_added) < MaxRequests => \A raw \in RawRequests : ENABLED AddRequest(raw)

C5_Witness ==
    /\ Len(q_got) = 2
    /\ Len(request_queue) = 1
    /\ q_pc = "send_request"
    /\ Answered(q_got[1].id)
    /\ Answered(q_got[2].id)

\* --------------------------------------------- claims on the solver resolution
RequestedIds == Range(s_solved.res.kw.agent_id.v)
BucketOf(node) == IF DictHas(s_solved.res.nodes, node)
                  THEN Range(DictGet(s_solved.res.nodes, node)) ELSE {}
Occurrences(id) ==
    Cardinality({<<i, k>> \in (DOMAIN s_solved.res.nodes) \X (1..MaxAgents) :
                    /\ k \in DOMAIN s_solved.res.nodes[i].ids
                    /\ s_solved.res.nodes[i].ids[k] = id})

\* C8: for an agent_id list the solver map holds every requested id known to the
\* directory in the bucket of its node and every other requested id in the bucket
\* of this node; every requested id is in exactly one bucket.
C8_SolverMap ==
    s_solved.done /\ s_kwargs.agent_id.t = "list" =>
        \A id \in RequestedIds :
            /\ id \in BucketOf(IF s_db[id] = NotRegistered THEN OwnNode ELSE s_db[id])
            /\ Occurrences(id) = 1

\* ------------------------------------------------------- claims on the merge
RECURSIVE Concat(_)
Concat(ss) == IF ss = <<>> THEN <<>> ELSE Head(ss) \o Concat(Tail(ss))

Count(x, s) == Cardinality({i \in DOMAIN s : s[i] = x})
FirstIdx(x, s) == CHOOSE i \in DOMAIN s : s[i] = x /\ \A j \in 1..(i - 1) : s[j] # x
FirstSeen(M, all) ==
    \A x, y \in Range(M) :
        FirstIdx(x, all) < FirstIdx(y, all) => FirstIdx(x, M) < FirstIdx(y, M)

ContribLists == [i \in DOMAIN m_responses |-> m_responses[i]["data"].v["affected_agents"].v]
MergedList == merged.json["data"].v["affected_agents"].v
FirstCarrier(x) == CHOOSE i \in DOMAIN ContribLists :
                      /\ x \in Range(ContribLists[i])
                      /\ \A j \in 1..(i - 1) : x \notin Range(ContribLists[j])

\* C9 as stated: for every sequence of contributor lists the merged list holds
\* every element of any contributor, holds no element twice, and is ordered by
\* first appearance.
C9_AsStated ==
    merged.done =>
        /\ Range(MergedList) = Range(Concat(ContribLists))
        /\ NoDup(MergedList)
        /\ FirstSeen(MergedList, Concat(ContribLists))

\* C9 amended: the merged list holds every element of any contributor, ordered by
\* first appearance; it holds no element twice provided no single contributor's
\* list does, and in general an element occurs as often as in the first
\* contributor list that carries it.
C9_ListMerge ==
    merged.done =>
        /\ Range(MergedList) = Range(Concat(ContribLists))
        /\ FirstSeen(MergedList, Concat(ContribLists))
        /\ (\A i \in DOMAIN ContribLists : NoDup(ContribLists[i])) => NoDup(MergedList)
        /\ \A x \in Range(MergedList) :
              Count(x, MergedList) = Count(x, ContribLists[FirstCarrier(x)])

C9_Witness ==
    /\ merged.done
    /\ ContribLists = << <<"A", "B">>, <<"B", "C">> >>
    /\ MergedList = <<"A", "B", "C">>

IntKeys == {"totalItems", "error", "n"}
Depths == 0..2

\* the dict found at a nesting depth of a payload
AtDepth(json, d) ==
    IF d = 0 THEN json
    ELSE IF d = 1 THEN json["data"].v
    ELSE json["data"].v["sub"].v

Carriers(key, d) == {i \in DOMAIN m_responses : key \in DOMAIN AtDepth(m_responses[i], d)}
Carried(key, d, i) == AtDepth(m_responses[i], d)[key].v

RECURSIVE SumOver(_, _, _)
SumOver(key, d, is) ==
    IF is = {} THEN 0
    ELSE LET i == CHOOSE j \in is : TRUE
         IN  Carried(key, d, i) + SumOver(key, d, is \ {i})

MaxOver(key, d, is) ==
    CHOOSE m \in {Carried(key, d, i) : i \in is} : \A i \in is : Carried(key, d, i) <= m

FirstOf(is) == CHOOSE i \in is : \A j \in is : i <= j

ExpectedInt(key, d) ==
    IF key = "totalItems" THEN SumOver(key, d, Carriers(key, d))
    ELSE IF key = "error" THEN MaxOver(key, d, Carriers(key, d))
    ELSE Carried(key, d, FirstOf(Carriers(key, d)))

\* C10: at every nesting depth totalItems is the sum over the contributors that
\* carry it, error is their maximum, and any other integer key keeps the value of
\* the first contributor that carries it.
C10_IntMerge ==
    merged.done =>
        \A d \in Depths, key \in IntKeys :
            IF Carriers(key, d) = {}
            THEN key \notin DOMAIN AtDepth(merged.json, d)
            ELSE /\ key \in DOMAIN AtDepth(merged.json, d)
                 /\ AtDepth(merged.json, d)[key] = JInt(ExpectedInt(key, d))

C10_Witness ==
    /\ merged.done
    /\ Len(m_responses) = 2
    /\ AtDepth(m_responses[1], 2) = Ints([error |-> Arg(0), total |-> Arg(2), n |-> Arg(5)])
    /\ AtDepth(m_responses[2], 2) = Ints([error |-> Arg(1000), total |-> Arg(3), n |-> Arg(7)])
    /\ AtDepth(merged.json, 2) = Ints([error |-> Arg(1000), total |-> Arg(5), n |-> Arg(5)])

\* ------------------------------------------------ claims on the pagination
ContribItems == [i \in DOMAIN m_responses |-> m_responses[i]["data"].v["items"].v]
PagedItems == merged.json["data"].v["items"].v

RECURSIVE Dedup(_)
Dedup(s) ==
    IF s = <<>> THEN <<>>
    ELSE LET d == Dedup(SubSeq(s, 1, Len(s) - 1))
         IN  IF s[Len(s)] \in Range(d) THEN d ELSE Append(d, s[Len(s)])

\* what contributor i adds: its items that no earlier contributor carries
Fresh(i) ==
    SelectSeq(ContribItems[i],
              LAMBDA x : \A j \in 1..(i - 1) : x \notin Range(ContribItems[j]))
MergedItems == Concat([i \in DOMAIN m_responses |-> Fresh(i)])

RequestedOffset == IF merged.asked.offset.has THEN merged.asked.offset.v ELSE 0
RequestedLimit == IF merged.asked.limit.has THEN merged.asked.limit.v ELSE database_limit
PageOf(M) ==
    LET sorted == IF merged.asked.sort.has THEN sort_array(M, merged.asked.sort.v) ELSE M
    IN  SubSeq(sorted, RequestedOffset + 1, Min(RequestedOffset + RequestedLimit, Len(sorted)))

\* C11 as stated: the returned data.items is sorted(M)[offset : offset+limit] with M
\* the de-duplicated union of the contributors' items.
C11_AsStated ==
    merged.done => PagedItems = PageOf(Dedup(Concat(ContribItems)))

\* C11 amended: the returned data.items is sorted(M)[offset : offset+limit], sorted
\* and sliced once, with M the contributors' items in arrival order without the
\* items an earlier contributor carries (an item that one contributor carries
\* twice stays twice); offset defaults to 0 and limit to the default page size,
\* and both defaults are written to the request's arguments.
C11_Pagination ==
    merged.done =>
        /\ PagedItems = PageOf(MergedItems)
        /\ m_kwargs.offset = Arg(RequestedOffset)
        /\ m_kwargs.limit = Arg(RequestedLimit)

C11_Witness ==
    /\ merged.done
    /\ merged.asked.offset = Arg(1) /\ merged.asked.limit = Arg(2)
    /\ merged.asked.sort = Arg("desc")
    /\ ContribItems = << <<1, 3>>, <<3, 2>> >>
    /\ PagedItems = <<2, 1>>

\* ----------------------------------------------- claims on the envelope shape
\* C12: every response distribute_function returns holds an error code and exactly
\* one of data and message: data exactly when the error code is 0, message exactly
\* when it is not.
C12_EnvelopeShape ==
    pc = "done" /\ ret.kind = "returned" =>
        /\ "error" \in DOMAIN ret.json
        /\ "data" \in DOMAIN ret.json <=> ErrorOf(ret) = 0
        /\ "message" \in DOMAIN ret.json <=> ErrorOf(ret) # 0

\* ------------------------------------------------ claims on the reply protocol
Last(q) == q[Len(q)]
\* the handling of the k-th dequeued request has ended
Handled(k) == k < Len(q_got) \/ q_pc \in {"get", "crashed"}
Suffix(raw) == IF raw.suffix.has THEN <<raw.suffix.v, " ">> ELSE <<>>

\* C13: for every dequeued request run() first sends the envelope with send_string
\* on the channel its peer name selects, then exactly one control message on that
\* channel: dapi_err when the send token begins with Error, dapi_res otherwise, with
\* the correlation suffix followed by the token as its body; once the handling of
\* a request has ended both messages were sent.
C13_ReplyProtocol ==
    \A k \in DOMAIN q_got :
        LET req == q_got[k]
            strs == SentFor(req.id, "send_string")
            ctls == SentFor(req.id, "send_request")
        IN  /\ Cardinality(strs) <= 1 /\ Cardinality(ctls) <= 1
            /\ \A m \in ctls : \E n \in strs : n < m
            /\ \A m \in strs \cup ctls : q_sent[m].node = req.raw.peer
            /\ \A m \in ctls :
                  /\ q_sent[m].cmd = IF Last(q_sent[m].body) = "Error" THEN "dapi_err"
                                     ELSE "dapi_res"
                  /\ q_sent[m].body = Suffix(req.raw) \o <<Last(q_sent[m].body)>>
            /\ Handled(k) => Cardinality(strs) = 1 /\ Cardinality(ctls) = 1

\* ------------------------------------------------- claims on the marshaling
\* C14: decoding what CallableEncoder encoded gives a call with equal arguments,
\* request_type, wait_for_complete, from_cluster and is_async and a function
\* reference that resolves to the target of the original, for module-level
\* functions, functions defined in a class at any nesting depth and bound methods
\* of a Wazuh object.
C14_RoundTrip ==
    w_got.done /\ w_wire.damage = "none" =>
        /\ w_got.res.raised = "none"
        /\ w_got.res.target = TargetOf(w_call.f)
        /\ w_got.call = w_call.call

\* C16: decoding a malformed envelope (the marker, the name, the module or the
\* qualified name missing, a module that cannot be imported, an attribute that
\* does not exist) always raises the TypeError of as_callable.
C16_DecodeError ==
    w_got.done /\ w_wire.damage # "none" => w_got.res.raised = "TypeError"

\* --------------------------------------------- claims on the string merge
AllRestarted == "All selected agents were restarted"
SomeNotRestarted == "Some agents were not restarted"

MsgCarriers == {i \in DOMAIN m_responses : "msg" \in DOMAIN m_responses[i]["data"].v}
MsgOf(i) == m_responses[i]["data"].v["msg"].v
FirstMsg == MsgOf(FirstOf(MsgCarriers))
MergedMsg == merged.json["data"].v["msg"].v

\* C15 as stated: the first string written stays unless the pair (new, existing)
\* is in the priority table, and an accumulated 'All selected agents were restarted'
\* is never replaced by 'Some agents were not restarted'.
C15_AsStated ==
    merged.done /\ MsgCarriers # {} =>
        /\ MergedMsg # FirstMsg =>
              \E i \in MsgCarriers : <<MsgOf(i), FirstMsg>> \in priorities /\ MergedMsg = MsgOf(i)
        /\ FirstMsg = AllRestarted => MergedMsg # SomeNotRestarted

\* C15 amended: the first string written stays unless a later contributor's string
\* forms with it a pair (new, existing) of the priority table; the table's one
\* pair lets 'Some agents were not restarted' replace an accumulated 'All selected
\* agents were restarted', and never the other way round.
C15_StrMerge ==
    merged.done =>
        IF MsgCarriers = {}
        THEN "msg" \notin DOMAIN merged.json["data"].v
        ELSE MergedMsg =
                IF /\ FirstMsg = AllRestarted
                   /\ \E i \in MsgCarriers : MsgOf(i) = SomeNotRestarted
                THEN SomeNotRestarted
                ELSE FirstMsg

C15_Witness ==
    /\ merged.done
    /\ Len(m_responses) = 2
    /\ MsgCarriers = {1, 2}
    /\ MsgOf(1) = AllRestarted /\ MsgOf(2) = SomeNotRestarted
    /\ MergedMsg = SomeNotRestarted

\* ------------------------------------------ claims on the fan-out sub-calls
\* a fan-out over an id list: two or more buckets, each with the ids of its node
IdListFanOut ==
    /\ taken = <<"forward">>
    /\ Len(nodes) >= 2
    /\ \A i \in DOMAIN nodes : nodes[i].ids # <<>>

FnStarted(i) == subs[i].fn \in {"running", "returned", "raised"}

\* the envelope marshalled for a remote node carries the ids of its own bucket
RemoteBuckets ==
    \A i \in DOMAIN subs : subs[i].kind = "remote" =>
        \E m \in DOMAIN chan :
            /\ chan[m].to = subs[i].node
            /\ chan[m].cmd = "dapi_forward"
            /\ chan[m].call.f_kwargs.agent_id = AgentList(subs[i].ids)

\* the target function of a local sub-call is invoked with the ids of its own bucket
LocalBuckets ==
    \A i \in DOMAIN subs : subs[i].kind = "local" /\ FnStarted(i) =>
        subs[i].arg = AgentList(subs[i].ids)

\* C17: in a fan-out over an id list with two or more buckets every sub-call uses
\* the ids of its own bucket, the remote envelopes as well as the local function,
\* whenever the worker thread of the local function gets to run.
C17_OwnBucket == IdListFanOut => RemoteBuckets /\ LocalBuckets

\* ------------------------------------------------- claims on re-forwarding
\* a call received from the cluster: the envelope said from_cluster = true
ForwardedCall == cfg.from_cluster /\ cfg.request_type = "distributed_master"

\* what a node configured as c does with the call of envelope m
RouteOn(c, m) == route([c EXCEPT !.request_type = m.call.request_type], m.call.from_cluster)

NoReforward ==
    /\ Len(taken) <= 1
    /\ ForwardedCall /\ pc # "start" => taken = <<"local">> /\ chan = <<>>
    /\ taken = <<"forward">> =>
          /\ subs # <<>> => from_cluster
          /\ \A i \in DOMAIN subs : subs[i].kind \in {"new", "local", "remote"}
          /\ \A i \in DOMAIN subs :
                subs[i].kind = "remote" => ~is_local_node(subs[i].node, cfg.node)
          /\ \A m \in DOMAIN chan :
                /\ chan[m].cmd = "dapi_forward"
                /\ chan[m].call.from_cluster
                /\ \A c \in Configs : RouteOn(c, chan[m]) = "local"
    /\ taken = <<"remote">> =>
          \A m \in DOMAIN chan :
              /\ chan[m].cmd = "dapi" /\ chan[m].to = "master"
              /\ \A c \in Configs : c.node_type = "master" => RouteOn(c, chan[m]) # "remote"

\* C18: a forwarded call is never forwarded again: from_cluster is true before a
\* sub-call is issued, every dapi_forward carries from_cluster = true and is run
\* locally by whoever receives it, the forward-to-self re-entry runs locally,
\* forward_request is entered at most once, and a request that has not ended
\* always has a next step to make (no step is ever undone, so it ends when
\* every peer call and every local execution returns).
C18_NoReforward == NoReforward /\ (pc # "done" => ENABLED NextDapi)

C18_Witness ==
    /\ pc = "done"
    /\ taken = <<"forward">>
    /\ ret.kind = "returned"
    /\ \E m \in DOMAIN chan : chan[m].cmd = "dapi_forward" /\ chan[m].call.from_cluster
    /\ \E i \in DOMAIN subs :
          /\ is_local_node(subs[i].node, cfg.node)
          /\ subs[i].kind = "local" /\ subs[i].fn = "returned"

\* -------------------------------------------- claims on the empty solver map
\* get_solver_node returned a map without entries
EmptySolverMap == taken = <<"forward">> /\ "empty" \in failures

\* C19: when the solver map is empty, forward_request runs no target function and
\* sends nothing on a peer channel, and with debug off distribute_function returns
\* an envelope with a non-zero error code: it neither hangs nor lets an exception
\* escape.
C19_EmptySolverMap ==
    /\ EmptySolverMap =>
          /\ nodes = <<>> /\ subs = <<>> /\ chan = <<>>
          /\ pc = "done"
          /\ ~cfg.debug =>
                /\ ret.kind = "returned"
                /\ ret.json["error"].v # 0
                /\ DOMAIN ret.json = {"message", "error"}
    /\ taken = <<"forward">> /\ nodes = <<>> => pc = "done" /\ failures \in {{"empty"}, {"lookup"}}

C19_Witness ==
    /\ EmptySolverMap
    /\ ~cfg.debug
    /\ ~f_kwargs.agent_id.has
    /\ pc = "done"
    /\ ret = Returned(print_json(JStr(""), 1000))

\* ------------------------------------------------ claims on the cancellation
\* C20: when the deadline of a local execution has fired, the target function is
\* cancelled: after the timeout it is neither running nor does it complete, be it
\* an async task or a function handed to a worker thread.
C20_Cancelled ==
    \A i \in DOMAIN subs : subs[i].timed_out => subs[i].fn = "cancelled"

====
